---- MODULE Spec2Model ----
(***************************************************************************)
(* The two scripts of the repository, get_config.py (config fetcher) and   *)
(* list_sites.py (site lister), as one state machine.  A run is one        *)
(* execution of one script; `script` says which, and `sent` holds the HTTP  *)
(* requests it has issued.  The remote service is the environment: it      *)
(* answers a GET with a response or makes the call raise.                  *)
(*                                                                         *)
(* A response body is the JSON text as the decoder reads it (a syntax      *)
(* tree of tokens); response.json() turns it into Python values and        *)
(* json.dumps / str() turn Python values back into text.                   *)
(***************************************************************************)
EXTENDS Integers, Sequences, FiniteSets, TLC

VARIABLES script, pc, sent, response, exc, data, sites, iter, site, out, exitcode

vars == <<script, pc, sent, response, exc, data, sites, iter, site, out, exitcode>>

(***************************************************************************)
(* Bounds of the model.                                                    *)
(***************************************************************************)
MaxLen == 2      \* longest array / object of a config fetcher body
MaxSites == 3    \* longest array of a site lister body

(***************************************************************************)
(* Program constants.                                                      *)
(***************************************************************************)
HTTP_OK == 200           \* response.status_code == 200
Indent == 2              \* json.dumps(data, indent=2)
DBL_MAX_10_EXP == 308    \* largest decimal exponent of a Python float
DBL_MIN_10_EXP == -307   \* smallest decimal exponent of a normal float
DBL_TRUE_MIN_10_EXP == -324   \* decimal exponent of the smallest positive float

None == <<"None", <<>> >>

(***************************************************************************)
(* Strings are sequences of one-character strings; Join gives the text.    *)
(***************************************************************************)
RECURSIVE Join(_)
Join(cs) == IF cs = <<>> THEN "" ELSE Head(cs) \o Join(Tail(cs))

RECURSIVE Zeros(_)
Zeros(n) == IF n <= 0 THEN "" ELSE "0" \o Zeros(n - 1)

RECURSIVE Flatten(_)
Flatten(ss) == IF ss = <<>> THEN <<>> ELSE Head(ss) \o Flatten(Tail(ss))

ID == <<"i", "d">>
NAME == <<"n", "a", "m", "e">>

(***************************************************************************)
(* JSON text, as a tree of tokens <<tag, payload>>.                        *)
(*   null true false           literals                                    *)
(*   int   n                   a number written without fraction/exponent  *)
(*   real  <<m, e>>            a number written m E e, m a non-zero digit  *)
(*   str   characters                                                      *)
(*   arr   elements            obj  sequence of <<name, value>>            *)
(*   NaN Infinity -Infinity    tokens that are not JSON, which Python's    *)
(*                             decoder accepts                             *)
(*   text  characters          a body that is no JSON at all               *)
(***************************************************************************)
Lit(t) == <<t, <<>> >>
JInt(n) == <<"int", n>>
JReal(m, e) == <<"real", <<m, e>> >>
JStr(cs) == <<"str", cs>>
JArr(xs) == <<"arr", xs>>
JObj(ms) == <<"obj", ms>>
NotJson(cs) == <<"text", cs>>

JsonLiterals == {"null", "true", "false"}
PyOnlyLiterals == {"NaN", "Infinity", "-Infinity"}

\* RFC 8259: is the body a JSON text
RECURSIVE ValidJSON(_)
ValidJSON(b) ==
    CASE b[1] \in JsonLiterals \cup {"int", "real", "str"} -> TRUE
      [] b[1] = "arr" -> \A i \in 1..Len(b[2]) : ValidJSON(b[2][i])
      [] b[1] = "obj" -> \A i \in 1..Len(b[2]) : ValidJSON(b[2][i][2])
      [] OTHER -> FALSE

\* does an object of the body repeat a name
RECURSIVE RepeatsName(_)
RepeatsName(b) ==
    CASE b[1] = "arr" -> \E i \in 1..Len(b[2]) : RepeatsName(b[2][i])
      [] b[1] = "obj" ->
            \/ \E i, j \in 1..Len(b[2]) : i # j /\ b[2][i][1] = b[2][j][1]
            \/ \E i \in 1..Len(b[2]) : RepeatsName(b[2][i][2])
      [] OTHER -> FALSE

\* m E e is beyond the largest double (m a non-zero digit, possibly negated)
Overflows(m, e) ==
    \/ e > DBL_MAX_10_EXP
    \/ e = DBL_MAX_10_EXP /\ (m >= 2 \/ m <= -2)

\* m E e is nearer to zero than to the smallest positive double
Underflows(m, e) == e < DBL_TRUE_MIN_10_EXP

\* m E e is within the normal doubles, which hold it to the digits written
\* (the subnormal numbers in between, which are rounded coarsely, are left out
\* of the bodies of this model)
InNormalRange(m, e) == ~Overflows(m, e) /\ e >= DBL_MIN_10_EXP

\* does the body hold a number outside the range of the normal doubles
RECURSIVE HasOutOfRange(_)
HasOutOfRange(b) ==
    CASE b[1] = "real" -> ~InNormalRange(b[2][1], b[2][2])
      [] b[1] = "arr" -> \E i \in 1..Len(b[2]) : HasOutOfRange(b[2][i])
      [] b[1] = "obj" -> \E i \in 1..Len(b[2]) : HasOutOfRange(b[2][i][2])
      [] OTHER -> FALSE

(***************************************************************************)
(* Python values <<type tag, payload>>, as response.json() builds them.    *)
(*   None True False  int  float (finite <<m, e, negative>>, inf, -inf,    *)
(*   nan)                                                                  *)
(*   str  list  dict (pairs <<key, value>> in insertion order, keys        *)
(*   distinct)                                                             *)
(***************************************************************************)
PyLit(t) == <<t, <<>> >>
PyInt(n) == <<"pyint", n>>
PyFloat(m, e) == <<"pyfloat", <<m, e, m < 0>> >>
PyZero(neg) == <<"pyfloat", <<0, 0, neg>> >>
PyString(cs) == <<"pystr", cs>>
PyList(xs) == <<"list", xs>>
PyDict(ps) == <<"dict", ps>>

\* d[k] = v on the pairs of a dict: a key already there keeps its place
DictSet(ps, k, v) ==
    IF \E i \in 1..Len(ps) : ps[i][1] = k
    THEN [i \in 1..Len(ps) |-> IF ps[i][1] = k THEN <<k, v>> ELSE ps[i]]
    ELSE Append(ps, <<k, v>>)

\* float(text) of a number written m E e
ParseFloat(m, e) ==
    IF Overflows(m, e)
    THEN (IF m > 0 THEN PyLit("inf") ELSE PyLit("-inf"))
    ELSE IF Underflows(m, e) THEN PyZero(m < 0)
    ELSE PyFloat(m, e)

\* does the decoder accept the body (otherwise it raises JSONDecodeError)
Decodes(b) == b[1] # "text"

\* json.loads: the Python value of a body the decoder accepts
RECURSIVE Loads(_)
RECURSIVE LoadsMembers(_, _)
LoadsMembers(ms, ps) ==
    IF ms = <<>> THEN ps
    ELSE LoadsMembers(Tail(ms), DictSet(ps, Head(ms)[1], Loads(Head(ms)[2])))

Loads(b) ==
    CASE b[1] = "null" -> None
      [] b[1] = "true" -> PyLit("True")
      [] b[1] = "false" -> PyLit("False")
      [] b[1] = "int" -> PyInt(b[2])
      [] b[1] = "real" -> ParseFloat(b[2][1], b[2][2])
      [] b[1] = "NaN" -> PyLit("nan")
      [] b[1] = "Infinity" -> PyLit("inf")
      [] b[1] = "-Infinity" -> PyLit("-inf")
      [] b[1] = "str" -> PyString(b[2])
      [] b[1] = "arr" -> PyList([i \in 1..Len(b[2]) |-> Loads(b[2][i])])
      [] b[1] = "obj" -> PyDict(LoadsMembers(b[2], <<>>))

(***************************************************************************)
(* str() and repr() of a Python value, as an f-string field prints it.     *)
(***************************************************************************)
Abs(n) == IF n < 0 THEN -n ELSE n

\* float.__repr__ of m * 10^e, m a digit: exponent form outside 1e-4 .. 1e16,
\* positional form inside
FloatRepr(m, e, neg) ==
    LET sign == IF neg THEN "-" ELSE ""
        d == ToString(Abs(m))
    IN  CASE e >= 16 -> sign \o d \o "e+" \o ToString(e)
          [] e >= 0 /\ e < 16 -> sign \o d \o Zeros(e) \o ".0"
          [] e < 0 /\ e >= -4 -> sign \o "0." \o Zeros(-e - 1) \o d
          [] e < -4 -> sign \o d \o "e-" \o (IF e > -10 THEN "0" ELSE "") \o ToString(-e)

PyTypeName(x) ==
    CASE x[1] = "None" -> "NoneType"
      [] x[1] \in {"True", "False"} -> "bool"
      [] x[1] = "pyint" -> "int"
      [] x[1] \in {"pyfloat", "inf", "-inf", "nan"} -> "float"
      [] x[1] = "pystr" -> "str"
      [] x[1] = "list" -> "list"
      [] x[1] = "dict" -> "dict"

RECURSIVE JoinWith(_, _)
JoinWith(ss, sep) ==
    IF ss = <<>> THEN ""
    ELSE IF Len(ss) = 1 THEN ss[1]
    ELSE ss[1] \o sep \o JoinWith(Tail(ss), sep)

RECURSIVE PyRepr(_)
PyRepr(x) ==
    CASE x[1] \in {"None", "True", "False", "inf", "-inf", "nan"} -> x[1]
      [] x[1] = "pyint" -> ToString(x[2])
      [] x[1] = "pyfloat" -> FloatRepr(x[2][1], x[2][2], x[2][3])
      [] x[1] = "pystr" -> "'" \o Join(x[2]) \o "'"
      [] x[1] = "list" ->
            "[" \o JoinWith([i \in 1..Len(x[2]) |-> PyRepr(x[2][i])], ", ") \o "]"
      [] x[1] = "dict" ->
            "{" \o JoinWith([i \in 1..Len(x[2]) |->
                    "'" \o Join(x[2][i][1]) \o "': " \o PyRepr(x[2][i][2])], ", ") \o "}"

\* format(x, ""), what {x} prints in an f-string
PyFormat(x) == IF x[1] = "pystr" THEN Join(x[2]) ELSE PyRepr(x)

\* variant of DictGet: x.get(k, ""), an empty string for a missing key
DictGetOrEmpty(x, k) ==
    IF \E i \in 1..Len(x[2]) : x[2][i][1] = k
    THEN x[2][CHOOSE i \in 1..Len(x[2]) : x[2][i][1] = k][2]
    ELSE PyString(<<>>)

\* x.get(k): defined for a dict, None for a missing key
DictGet(x, k) ==
    IF \E i \in 1..Len(x[2]) : x[2][i][1] = k
    THEN x[2][CHOOSE i \in 1..Len(x[2]) : x[2][i][1] = k][2]
    ELSE None

HasGet(x) == x[1] = "dict"

\* iter(x): the items a for loop visits, for the types that are iterable
Iterable(x) == x[1] \in {"list", "dict", "pystr"}

IterItems(x) ==
    CASE x[1] = "list" -> x[2]
      [] x[1] = "dict" -> [i \in 1..Len(x[2]) |-> PyString(x[2][i][1])]
      [] x[1] = "pystr" -> [i \in 1..Len(x[2]) |-> PyString(<<x[2][i]>>)]

(***************************************************************************)
(* json.dumps(data, indent=...): the lines of the text.  A line is         *)
(*   ind   the spaces it starts with                                       *)
(*   key   the member name written before the token, <<>> in an array      *)
(*         (hasKey tells an empty name from none)                          *)
(*   tok   a scalar token, or an opening/closing bracket, or "[]" / "{}"   *)
(*   comma whether "," ends the line                                       *)
(***************************************************************************)
Bracket(s) == <<s, <<>> >>

ScalarToken(x) ==
    CASE x[1] = "None" -> Lit("null")
      [] x[1] = "True" -> Lit("true")
      [] x[1] = "False" -> Lit("false")
      [] x[1] = "pyint" -> JInt(x[2])
      [] x[1] = "pyfloat" -> JReal(x[2][1], x[2][2])
      [] x[1] = "inf" -> Lit("Infinity")
      [] x[1] = "-inf" -> Lit("-Infinity")
      [] x[1] = "nan" -> Lit("NaN")
      [] x[1] = "pystr" -> JStr(x[2])

Line(ind, hasKey, key, tok, comma) ==
    [ind |-> ind, hasKey |-> hasKey, key |-> key, tok |-> tok, comma |-> comma]

RECURSIVE DumpLines(_, _, _, _, _, _)
DumpLines(x, step, level, hasKey, key, comma) ==
    CASE x[1] = "list" ->
            IF x[2] = <<>>
            THEN <<Line(step * level, hasKey, key, Bracket("[]"), comma)>>
            ELSE <<Line(step * level, hasKey, key, Bracket("["), FALSE)>>
                 \o Flatten([i \in 1..Len(x[2]) |->
                        DumpLines(x[2][i], step, level + 1, FALSE, <<>>, i < Len(x[2]))])
                 \o <<Line(step * level, FALSE, <<>>, Bracket("]"), comma)>>
      [] x[1] = "dict" ->
            IF x[2] = <<>>
            THEN <<Line(step * level, hasKey, key, Bracket("{}"), comma)>>
            ELSE <<Line(step * level, hasKey, key, Bracket("{"), FALSE)>>
                 \o Flatten([i \in 1..Len(x[2]) |->
                        DumpLines(x[2][i][2], step, level + 1, TRUE, x[2][i][1], i < Len(x[2]))])
                 \o <<Line(step * level, FALSE, <<>>, Bracket("}"), comma)>>
      [] OTHER -> <<Line(step * level, hasKey, key, ScalarToken(x), comma)>>

\* variant of Dumps: json.dumps(data, indent=4)
DumpsIndent4(x) == DumpLines(x, 4, 0, FALSE, <<>>, FALSE)

\* json.dumps(data, indent=2)
Dumps(x) == DumpLines(x, Indent, 0, FALSE, <<>>, FALSE)

(***************************************************************************)
(* The environment: what the service may answer, and how the GET may fail. *)
(***************************************************************************)
SeqsUpTo(S, n) == UNION {[1..k -> S] : k \in 0..n}

OtherStatuses == {201, 404, 500}

ConfigScalars ==
    {Lit("null"), Lit("true"), JInt(1), JReal(5, -1), JReal(1, 308), JReal(2, 308),
     JReal(1, -400), JStr(<<"A">>), Lit("NaN")}

ConfigNames == {ID, NAME}

ConfigFlat ==
    ConfigScalars
    \cup {JArr(xs) : xs \in SeqsUpTo(ConfigScalars, MaxLen)}
    \cup {JObj(ms) : ms \in SeqsUpTo(ConfigNames \X ConfigScalars, MaxLen)}

ConfigInner ==
    {JArr(xs) : xs \in SeqsUpTo({JInt(1), JReal(-1, 400)}, MaxLen)}
    \cup {JObj(ms) : ms \in SeqsUpTo(ConfigNames \X {JInt(1), JReal(-1, 400)}, MaxLen)}

ConfigNested ==
    {JArr(<<b, Lit("false")>>) : b \in ConfigInner}
    \cup {JObj(<< <<ID, b>>, <<NAME, JStr(<<"F", "e", "s", "t", "o">>)>> >>) : b \in ConfigInner}

Unparseable == {NotJson(<<>>), NotJson(<<"<", "h", "t", "m", "l", ">">>)}

ConfigBodies == ConfigFlat \cup ConfigNested \cup Unparseable

SiteObjects ==
    {JObj(i \o n) : i \in {<<>>, << <<ID, JInt(1)>> >>},
                    n \in {<<>>, << <<NAME, JStr(<<"A">>)>> >>}}
    \cup {JObj(<< <<NAME, JStr(<<"B">>)>>, <<<<"x">>, Lit("true")>>, <<ID, JInt(2)>> >>),
          JObj(<< <<ID, JInt(1)>>, <<ID, JReal(2, 308)>> >>)}

SiteNonObjects == {JInt(3), Lit("null")}

SiteElements == SiteObjects \cup SiteNonObjects

SiteOtherBodies ==
    {JObj(<<>>), JObj(<< <<ID, JInt(1)>> >>), JStr(<<>>), JStr(<<"a", "b">>),
     JInt(5), JReal(1, 2), Lit("null"), Lit("true"), Lit("NaN")}

SiteBodies ==
    {JArr(xs) : xs \in SeqsUpTo(SiteElements, MaxSites)}
    \cup SiteOtherBodies \cup Unparseable

ErrorBodies ==
    Unparseable
    \cup {JObj(<< <<<<"m", "s", "g">>, JStr(<<"n", "o">>)>> >>),
          JArr(<<JObj(<< <<ID, JInt(1)>>, <<NAME, JStr(<<"A">>)>> >>)>>)}

Bodies(s) == IF s = "get_config" THEN ConfigBodies ELSE SiteBodies

Responses(s) ==
    {[status_code |-> HTTP_OK, body |-> b] : b \in Bodies(s)}
    \cup {[status_code |-> c, body |-> b] : c \in OtherStatuses, b \in ErrorBodies}

\* the text of a body as the service wrote it (response.text)
RECURSIVE WireText(_)
WireText(b) ==
    CASE b[1] \in JsonLiterals \cup PyOnlyLiterals -> b[1]
      [] b[1] = "int" -> ToString(b[2])
      [] b[1] = "real" -> ToString(b[2][1]) \o "e" \o ToString(b[2][2])
      [] b[1] = "str" -> "\"" \o Join(b[2]) \o "\""
      [] b[1] = "arr" ->
            "[" \o JoinWith([i \in 1..Len(b[2]) |-> WireText(b[2][i])], ",") \o "]"
      [] b[1] = "obj" ->
            "{" \o JoinWith([i \in 1..Len(b[2]) |->
                    "\"" \o Join(b[2][i][1]) \o "\":" \o WireText(b[2][i][2])], ",") \o "}"
      [] b[1] = "text" -> Join(b[2])

(***************************************************************************)
(* Exceptions: a class and the text str(e) gives.                          *)
(***************************************************************************)
Exc(cls, msg) == [cls |-> cls, msg |-> msg]

NoExc == Exc("", "")

\* the base class of each exception class that occurs
BaseOf(c) ==
    CASE c = "ConnectionError" -> "RequestException"
      [] c = "ChunkedEncodingError" -> "RequestException"
      [] c = "JSONDecodeError" -> "RequestException"
      [] c = "RequestException" -> "OSError"
      [] c = "OSError" -> "Exception"
      [] c = "AttributeError" -> "Exception"
      [] c = "TypeError" -> "Exception"
      [] c = "Exception" -> "BaseException"
      [] OTHER -> "object"

RECURSIVE IsSubclass(_, _)
IsSubclass(c, d) ==
    \/ c = d
    \/ c # "object" /\ IsSubclass(BaseOf(c), d)

TransportErrors ==
    {Exc("ConnectionError", "Max retries exceeded with url (Connection refused)"),
     Exc("ChunkedEncodingError", "Connection broken: IncompleteRead")}

JSONDecodeError == Exc("JSONDecodeError", "Expecting value: line 1 column 1 (char 0)")

NotIterable(x) == Exc("TypeError", "'" \o PyTypeName(x) \o "' object is not iterable")

NoAttributeGet(x) ==
    Exc("AttributeError", "'" \o PyTypeName(x) \o "' object has no attribute 'get'")

(***************************************************************************)
(* Standard output: one entry per print call.  An f-string print has the   *)
(* fragments of its line in `parts`; the print of json.dumps has the lines *)
(* of the text in `json`.                                                  *)
(***************************************************************************)
PrintF(parts) == [parts |-> parts, json |-> <<>>]
PrintJson(lines) == [parts |-> <<>>, json |-> lines]

Unbound == <<"unbound", <<>> >>
NoResponse == [status_code |-> 0, body |-> NotJson(<<>>)]
NoIter == [items |-> <<>>, i |-> 0]
Running == -1

Init ==
    /\ script \in {"get_config", "list_sites"}
    /\ pc = "get"
    /\ sent = <<>>
    /\ response = NoResponse
    /\ exc = NoExc
    /\ data = Unbound
    /\ sites = Unbound
    /\ iter = NoIter
    /\ site = Unbound
    /\ out = <<>>
    /\ exitcode = Running

\* a statement raises e
Raise(e) ==
    /\ exc' = e
    /\ pc' = "unwind"

(***************************************************************************)
(* get_config.py                                                           *)
(***************************************************************************)
\* lines 6-7: the endpoint and the key, literal in the script (the key cut short)
SUPABASE_URL == "https://ycjrtxkhpjqlfvjfbtcn.supabase.co"
SUPABASE_KEY == "eyJhbGciOiJIUzI1NiIsInR5cCI6IkpXVCJ9"

\* lines 9-13: headers
headers ==
    {<<"apikey", SUPABASE_KEY>>,
     <<"Authorization", "Bearer " \o SUPABASE_KEY>>,
     <<"Content-Type", "application/json">>}

\* an HTTP request as requests sends it
Request(method, url, hdrs) == [method |-> method, url |-> url, headers |-> hdrs]

\* line 15: requests.get(f"{SUPABASE_URL}/rest/v1/config_sites?name=eq.Festo",
\* headers=headers) is called
GC_Get ==
    /\ script = "get_config" /\ pc = "get"
    /\ sent' = Append(sent, Request("GET",
                    SUPABASE_URL \o "/rest/v1/config_sites?name=eq.Festo", headers))
    /\ pc' = "wait"
    /\ UNCHANGED <<script, response, exc, data, sites, iter, site, out, exitcode>>

\* line 15: the call returns a response
GC_GetReturns ==
    /\ script = "get_config" /\ pc = "wait"
    /\ \E r \in Responses(script) : response' = r
    /\ pc' = "status"
    /\ UNCHANGED <<script, sent, exc, data, sites, iter, site, out, exitcode>>

\* line 15: the call raises
GC_GetRaises ==
    /\ script = "get_config" /\ pc = "wait"
    /\ \E e \in TransportErrors : Raise(e)
    /\ UNCHANGED <<script, sent, response, data, sites, iter, site, out, exitcode>>

\* line 16: if response.status_code == 200
GC_IfStatus ==
    /\ script = "get_config" /\ pc = "status"
    /\ pc' = IF response.status_code = HTTP_OK THEN "json" ELSE "print_error"
    /\ UNCHANGED <<script, sent, response, exc, data, sites, iter, site, out, exitcode>>

\* variant of GC_Json: a body the decoder rejects is taken as None
GC_JsonLenient ==
    /\ script = "get_config" /\ pc = "json"
    /\ data' = IF Decodes(response.body) THEN Loads(response.body) ELSE None
    /\ pc' = "print_json"
    /\ UNCHANGED <<script, sent, response, exc, sites, iter, site, out, exitcode>>

\* line 17: data = response.json()
GC_Json ==
    /\ script = "get_config" /\ pc = "json"
    /\ IF Decodes(response.body)
       THEN /\ data' = Loads(response.body)
            /\ pc' = "print_json"
            /\ UNCHANGED exc
       ELSE /\ Raise(JSONDecodeError)
            /\ UNCHANGED data
    /\ UNCHANGED <<script, sent, response, sites, iter, site, out, exitcode>>

\* line 18: print(json.dumps(data, indent=2))
GC_PrintJson ==
    /\ script = "get_config" /\ pc = "print_json"
    /\ out' = Append(out, PrintJson(Dumps(data)))
    /\ pc' = "eof"
    /\ UNCHANGED <<script, sent, response, exc, data, sites, iter, site, exitcode>>

\* variant of GC_ErrorMessage: the status code without the response text
GC_ErrorMessageNoText(r) == <<"Error: ", ToString(r.status_code)>>

\* line 20: f"Error: {response.status_code} {response.text}"
GC_ErrorMessage(r) ==
    <<"Error: ", ToString(r.status_code), " ", WireText(r.body)>>

\* line 20: print(...)
GC_PrintError ==
    /\ script = "get_config" /\ pc = "print_error"
    /\ out' = Append(out, PrintF(GC_ErrorMessage(response)))
    /\ pc' = "eof"
    /\ UNCHANGED <<script, sent, response, exc, data, sites, iter, site, exitcode>>

(***************************************************************************)
(* list_sites.py                                                           *)
(***************************************************************************)
\* line 5: requests.get("http://localhost:5244/api/sites") is called
LS_Get ==
    /\ script = "list_sites" /\ pc = "get"
    /\ sent' = Append(sent, Request("GET", "http://localhost:5244/api/sites", {}))
    /\ pc' = "wait"
    /\ UNCHANGED <<script, response, exc, data, sites, iter, site, out, exitcode>>

\* line 5: the call returns a response
LS_GetReturns ==
    /\ script = "list_sites" /\ pc = "wait"
    /\ \E r \in Responses(script) : response' = r
    /\ pc' = "status"
    /\ UNCHANGED <<script, sent, exc, data, sites, iter, site, out, exitcode>>

\* line 5: the call raises
LS_GetRaises ==
    /\ script = "list_sites" /\ pc = "wait"
    /\ \E e \in TransportErrors : Raise(e)
    /\ UNCHANGED <<script, sent, response, data, sites, iter, site, out, exitcode>>

\* variant of LS_IfStatus: every 2xx status counts as success
LS_IfStatusAny2xx ==
    /\ script = "list_sites" /\ pc = "status"
    /\ pc' = IF response.status_code >= 200 /\ response.status_code < 300
             THEN "json" ELSE "print_error"
    /\ UNCHANGED <<script, sent, response, exc, data, sites, iter, site, out, exitcode>>

\* line 6: if response.status_code == 200
LS_IfStatus ==
    /\ script = "list_sites" /\ pc = "status"
    /\ pc' = IF response.status_code = HTTP_OK THEN "json" ELSE "print_error"
    /\ UNCHANGED <<script, sent, response, exc, data, sites, iter, site, out, exitcode>>

\* line 7: sites = response.json()
LS_Json ==
    /\ script = "list_sites" /\ pc = "json"
    /\ IF Decodes(response.body)
       THEN /\ sites' = Loads(response.body)
            /\ pc' = "for"
            /\ UNCHANGED exc
       ELSE /\ Raise(JSONDecodeError)
            /\ UNCHANGED sites
    /\ UNCHANGED <<script, sent, response, data, iter, site, out, exitcode>>

\* line 8: for site in sites, entering the loop: iter(sites)
LS_ForIter ==
    /\ script = "list_sites" /\ pc = "for"
    /\ IF Iterable(sites)
       THEN /\ iter' = [items |-> IterItems(sites), i |-> 0]
            /\ pc' = "next"
            /\ UNCHANGED exc
       ELSE /\ Raise(NotIterable(sites))
            /\ UNCHANGED iter
    /\ UNCHANGED <<script, sent, response, data, sites, site, out, exitcode>>

\* line 8: for site in sites, each round: the next item, or the loop ends
LS_ForNext ==
    /\ script = "list_sites" /\ pc = "next"
    /\ IF iter.i < Len(iter.items)
       THEN /\ site' = iter.items[iter.i + 1]
            /\ iter' = [iter EXCEPT !.i = iter.i + 1]
            /\ pc' = "print_site"
       ELSE /\ pc' = "eof"
            /\ UNCHANGED <<site, iter>>
    /\ UNCHANGED <<script, sent, response, exc, data, sites, out, exitcode>>

\* variant of LS_SiteLine: the two fields in each other's place
LS_SiteLineSwapped(x) ==
    <<"ID: ", PyFormat(DictGet(x, NAME)), " - Name: ", PyFormat(DictGet(x, ID))>>

\* line 9: f"ID: {site.get('id')} - Name: {site.get('name')}"
LS_SiteLine(x) ==
    <<"ID: ", PyFormat(DictGet(x, ID)), " - Name: ", PyFormat(DictGet(x, NAME))>>

\* variant of LS_PrintSite: an element without get() is skipped
LS_PrintSiteSkipsBad ==
    /\ script = "list_sites" /\ pc = "print_site"
    /\ out' = IF HasGet(site) THEN Append(out, PrintF(LS_SiteLine(site))) ELSE out
    /\ pc' = "next"
    /\ UNCHANGED <<script, sent, response, exc, data, sites, iter, site, exitcode>>

\* line 9: print(...)
LS_PrintSite ==
    /\ script = "list_sites" /\ pc = "print_site"
    /\ IF HasGet(site)
       THEN /\ out' = Append(out, PrintF(LS_SiteLine(site)))
            /\ pc' = "next"
            /\ UNCHANGED exc
       ELSE /\ Raise(NoAttributeGet(site))
            /\ UNCHANGED out
    /\ UNCHANGED <<script, sent, response, data, sites, iter, site, exitcode>>

\* line 11: f"Error: {response.status_code}"
LS_StatusMessage(r) == <<"Error: ", ToString(r.status_code)>>

\* line 11: print(...)
LS_PrintStatus ==
    /\ script = "list_sites" /\ pc = "print_error"
    /\ out' = Append(out, PrintF(LS_StatusMessage(response)))
    /\ pc' = "eof"
    /\ UNCHANGED <<script, sent, response, exc, data, sites, iter, site, exitcode>>

\* variant of Catches: except requests.RequestException
CatchesRequestsOnly(cls) == IsSubclass(cls, "RequestException")

\* line 12: except Exception: the classes the handler takes
Catches(cls) == IsSubclass(cls, "Exception")

\* variant of Handled: the config fetcher has the same try/except
HandledInBothScripts == IsSubclass(exc.cls, "Exception")

\* is the raised exception inside a try whose handler takes it
Handled == script = "list_sites" /\ Catches(exc.cls)

\* line 13: f"Error: {e}"
LS_ExceptMessage(e) == <<"Error: ", e.msg>>

\* variant of LS_Except: the handler prints and tries the request again
LS_ExceptRetries ==
    /\ pc = "unwind" /\ script = "list_sites" /\ IsSubclass(exc.cls, "Exception")
    /\ out' = Append(out, PrintF(<<"Error: ", exc.msg>>))
    /\ pc' = IF Len(sent) < 3 THEN "get" ELSE "eof"
    /\ UNCHANGED <<script, sent, response, exc, data, sites, iter, site, exitcode>>

\* lines 12-13: except Exception as e: print(...)
LS_Except ==
    /\ pc = "unwind" /\ Handled
    /\ out' = Append(out, PrintF(LS_ExceptMessage(exc)))
    /\ pc' = "eof"
    /\ UNCHANGED <<script, sent, response, exc, data, sites, iter, site, exitcode>>

(***************************************************************************)
(* The interpreter, for both scripts.                                      *)
(***************************************************************************)
\* no handler takes the exception: traceback on stderr, exit status 1
Propagate ==
    /\ pc = "unwind" /\ ~Handled
    /\ exitcode' = 1
    /\ pc' = "exited"
    /\ UNCHANGED <<script, sent, response, exc, data, sites, iter, site, out>>

\* the end of the file is reached: exit status 0
Exit ==
    /\ pc = "eof"
    /\ exitcode' = 0
    /\ pc' = "exited"
    /\ UNCHANGED <<script, sent, response, exc, data, sites, iter, site, out>>

\* the steps the interpreter takes by itself
Step ==
    \/ GC_Get \/ GC_IfStatus \/ GC_Json \/ GC_PrintJson \/ GC_PrintError
    \/ LS_Get \/ LS_IfStatus \/ LS_Json \/ LS_ForIter \/ LS_ForNext
    \/ LS_PrintSite \/ LS_PrintStatus \/ LS_Except
    \/ Propagate \/ Exit

\* the steps that wait for the service
Answer == GC_GetReturns \/ GC_GetRaises \/ LS_GetReturns \/ LS_GetRaises

Next == Step \/ Answer

Spec == Init /\ [][Next]_vars

\* the interpreter keeps running; the service need not answer
FairSpec == Spec /\ WF_vars(Step)

(***************************************************************************)
(* Reading printed text back, for the properties below.                    *)
(***************************************************************************)
Openers == {"[", "{"}
Closers == {"]", "}"}

\* the JSON value the lines from line i on spell, and the line after it
RECURSIVE ReadValue(_, _)
RECURSIVE ReadItems(_, _, _, _)
ReadItems(ls, i, inObj, acc) ==
    IF ls[i].tok[1] \in Closers
    THEN [items |-> acc, next |-> i + 1]
    ELSE LET r == ReadValue(ls, i)
         IN  ReadItems(ls, r.next, inObj,
                       Append(acc, IF inObj THEN <<ls[i].key, r.val>> ELSE r.val))

ReadValue(ls, i) ==
    CASE ls[i].tok[1] = "[]" -> [val |-> JArr(<<>>), next |-> i + 1]
      [] ls[i].tok[1] = "{}" -> [val |-> JObj(<<>>), next |-> i + 1]
      [] ls[i].tok[1] = "[" ->
            LET r == ReadItems(ls, i + 1, FALSE, <<>>)
            IN  [val |-> JArr(r.items), next |-> r.next]
      [] ls[i].tok[1] = "{" ->
            LET r == ReadItems(ls, i + 1, TRUE, <<>>)
            IN  [val |-> JObj(r.items), next |-> r.next]
      [] OTHER -> [val |-> ls[i].tok, next |-> i + 1]

\* the lines are one complete value
ReadsWhole(ls) == ls # <<>> /\ ReadValue(ls, 1).next = Len(ls) + 1

\* how many brackets are open around line i
NestingAt(ls, i) ==
    Cardinality({j \in 1..(i - 1) : ls[j].tok[1] \in Openers})
    - Cardinality({j \in 1..i : ls[j].tok[1] \in Closers})

\* every line starts with step spaces per enclosing bracket, and a comma ends
\* exactly the lines that another item follows
LaidOut(ls, step) ==
    \A i \in 1..Len(ls) :
        /\ ls[i].ind = step * NestingAt(ls, i)
        /\ ls[i].comma <=> /\ ls[i].tok[1] \notin Openers
                           /\ i < Len(ls)
                           /\ ls[i + 1].tok[1] \notin Closers

\* equal JSON values, the order of an object's members aside
RECURSIVE SameValue(_, _)
SameValue(a, b) ==
    /\ a[1] = b[1]
    /\ CASE a[1] = "arr" ->
                /\ Len(a[2]) = Len(b[2])
                /\ \A i \in 1..Len(a[2]) : SameValue(a[2][i], b[2][i])
         [] a[1] = "obj" ->
                /\ Len(a[2]) = Len(b[2])
                /\ \A i \in 1..Len(a[2]) : \E j \in 1..Len(b[2]) :
                        a[2][i][1] = b[2][j][1] /\ SameValue(a[2][i][2], b[2][j][2])
                /\ \A j \in 1..Len(b[2]) : \E i \in 1..Len(a[2]) :
                        a[2][i][1] = b[2][j][1] /\ SameValue(a[2][i][2], b[2][j][2])
         [] OTHER -> a = b

Text(item) == Join(item.parts)
IsErrorLine(item) == item.parts # <<>> /\ Head(item.parts) = "Error: "
IsSiteLine(item) == Len(item.parts) = 4 /\ item.parts[1] = "ID: " /\ item.parts[3] = " - Name: "

Answered == response # NoResponse
Is200 == response.status_code = HTTP_OK
IsObject(b) == b[1] = "obj"
IsArrayOfObjects(b) == b[1] = "arr" /\ \A i \in 1..Len(b[2]) : IsObject(b[2][i])
Lacks(o, name) == \A i \in 1..Len(o[2]) : o[2][i][1] # name

\* the text Python shows for member `name` of a JSON object: the last member
\* of that name, None when there is none
Shown(o, name) ==
    IF Lacks(o, name) THEN "None"
    ELSE LET last == CHOOSE i \in 1..Len(o[2]) :
                        /\ o[2][i][1] = name
                        /\ \A j \in (i + 1)..Len(o[2]) : o[2][j][1] # name
         IN  PyFormat(Loads(o[2][last][2]))

\* how many objects a body starts with, when it is an array
RECURSIVE LeadingObjects(_)
LeadingObjects(xs) ==
    IF xs = <<>> \/ ~IsObject(Head(xs)) THEN 0 ELSE 1 + LeadingObjects(Tail(xs))

(***************************************************************************)
(* Properties of list_sites.py                                             *)
(***************************************************************************)
Lister == script = "list_sites"
Fetcher == script = "get_config"
Ended == pc \in {"eof", "exited"}

\* C1: in the site lister every exception raised by the GET, by response.json()
\* or by handling an element is taken by the handler, which prints "Error: "
\* followed by the exception's text as the last line; the script then exits
\* with status 0, and no run ends with an uncaught exception.
C1_ListerCatchesEverything ==
    Lister =>
        /\ exitcode \in {Running, 0}
        /\ pc = "unwind" => Handled
        /\ pc = "exited" => exitcode = 0
        /\ (exc # NoExc /\ Ended) =>
                /\ out # <<>>
                /\ Text(out[Len(out)]) = "Error: " \o exc.msg

C1_Witness ==
    /\ Lister /\ pc = "exited" /\ exitcode = 0
    /\ exc.cls = "AttributeError"
    /\ Len(out) = 2
    /\ Text(out[2]) = "Error: 'int' object has no attribute 'get'"

\* C2: in the site lister, a 200 response whose body is a JSON array of n
\* objects makes the script print exactly n lines, in array order, line i being
\* "ID: <id of element i> - Name: <name of element i>", print no "Error:" line
\* and exit with status 0.
C2_ListerPrintsEverySite ==
    (Lister /\ pc = "exited" /\ Is200 /\ IsArrayOfObjects(response.body)) =>
        LET elems == response.body[2]
        IN  /\ exitcode = 0
            /\ exc = NoExc
            /\ Len(out) = Len(elems)
            /\ \A i \in 1..Len(elems) :
                    /\ ~IsErrorLine(out[i])
                    /\ Text(out[i]) = "ID: " \o Shown(elems[i], ID)
                                      \o " - Name: " \o Shown(elems[i], NAME)

C2_Witness ==
    /\ Lister /\ pc = "exited" /\ Is200
    /\ response.body = JArr(<<JObj(<< <<ID, JInt(1)>>, <<NAME, JStr(<<"A">>)>> >>),
                              JObj(<< <<NAME, JStr(<<"B">>)>>, <<<<"x">>, Lit("true")>>,
                                      <<ID, JInt(2)>> >>)>>)
    /\ Len(out) = 2
    /\ Text(out[1]) = "ID: 1 - Name: A"
    /\ Text(out[2]) = "ID: 2 - Name: B"

\* C4: in the site lister, a response whose status is not 200 makes the script
\* print exactly one line, "Error: <status code>" without the body; the body is
\* never parsed, no site line is printed, and the script exits with status 0.
C4_ListerNon200 ==
    (Lister /\ Answered /\ ~Is200) =>
        /\ sites = Unbound /\ iter = NoIter /\ exc = NoExc
        /\ pc \in {"status", "print_error", "eof", "exited"}
        /\ pc \in {"status", "print_error"} => out = <<>>
        /\ Ended =>
                /\ Len(out) = 1
                /\ Text(out[1]) = "Error: " \o ToString(response.status_code)
        /\ pc = "exited" => exitcode = 0

C4_Witness ==
    /\ Lister /\ pc = "exited" /\ exitcode = 0
    /\ response.status_code = 500
    /\ Decodes(response.body)
    /\ Len(out) = 1 /\ Text(out[1]) = "Error: 500"

\* C8: in the site lister, an object of a 200 response's array that lacks "id"
\* and/or "name" still gets its line, with None for each missing value; it
\* raises nothing, and the elements after it are printed as well.
C8_ListerMissingKeys ==
    (Lister /\ pc = "exited" /\ Is200 /\ response.body[1] = "arr") =>
        LET elems == response.body[2]
        IN  /\ \A i \in 1..LeadingObjects(elems) :
                    /\ Len(out) >= i
                    /\ IsSiteLine(out[i])
                    /\ Lacks(elems[i], ID) => out[i].parts[2] = "None"
                    /\ Lacks(elems[i], NAME) => out[i].parts[4] = "None"
            /\ LeadingObjects(elems) = Len(elems) => exc = NoExc /\ Len(out) = Len(elems)

C8_Witness ==
    /\ Lister /\ pc = "exited" /\ Is200
    /\ response.body = JArr(<<JObj(<< <<ID, JInt(1)>> >>),
                              JObj(<< <<ID, JInt(1)>>, <<NAME, JStr(<<"A">>)>> >>)>>)
    /\ exc = NoExc
    /\ Len(out) = 2
    /\ Text(out[1]) = "ID: 1 - Name: None"
    /\ Text(out[2]) = "ID: 1 - Name: A"

\* the output is site lines followed by at most one "Error:" line
ListerOutputShape ==
    /\ \A i \in 1..Len(out) : IsSiteLine(out[i]) \/ IsErrorLine(out[i])
    /\ \A i \in 1..(Len(out) - 1) : IsSiteLine(out[i])

\* the k site lines of the leading objects, then exactly one "Error:" line
SitesThenError(k) ==
    /\ Len(out) = k + 1
    /\ \A i \in 1..k : IsSiteLine(out[i])
    /\ IsErrorLine(out[k + 1])

LeadingOf(b) == IF b[1] = "arr" THEN LeadingObjects(b[2]) ELSE 0

\* a parsed value, no array, whose loop visits nothing: the empty string and
\* the empty object
VisitsNothing(b) == b[1] \in {"str", "obj"} /\ b[2] = <<>>

\* C9 as stated: the site lister's output is always site lines followed by at
\* most one "Error:" line; and when the parsed value of a 200 response has k
\* objects followed by a non-object, or is not an array of objects at all, the
\* output ends as those k site lines followed by exactly one "Error:" line.
C9_Original ==
    Lister =>
        /\ ListerOutputShape
        /\ (pc = "exited" /\ Is200 /\ Decodes(response.body)
              /\ ~IsArrayOfObjects(response.body))
             => SitesThenError(LeadingOf(response.body))

\* C9 amended: the same, except that a parsed value that is an empty string or
\* an empty object makes the loop visit nothing: the script prints nothing, no
\* "Error:" line either, and exits with status 0.
C9_ListerOutputShape ==
    Lister =>
        /\ ListerOutputShape
        /\ (pc = "exited" /\ Is200 /\ Decodes(response.body)
              /\ ~IsArrayOfObjects(response.body))
             => IF VisitsNothing(response.body)
                THEN out = <<>> /\ exitcode = 0
                ELSE /\ SitesThenError(LeadingOf(response.body))
                     /\ exitcode = 0

C9_Witness ==
    /\ Lister /\ pc = "exited" /\ Is200
    /\ response.body = JArr(<<JObj(<< <<ID, JInt(1)>> >>), JInt(3),
                              JObj(<< <<ID, JInt(1)>> >>)>>)
    /\ Len(out) = 2
    /\ IsSiteLine(out[1]) /\ IsErrorLine(out[2])

(***************************************************************************)
(* Properties of get_config.py                                             *)
(***************************************************************************)
\* C3: in the config fetcher, a response whose status is not 200 (other 2xx
\* codes included) makes the script print exactly one message,
\* "Error: <status code> <raw response text>"; the body is never parsed as JSON
\* and no JSON payload is printed.
C3_FetcherNon200 ==
    (Fetcher /\ Answered /\ ~Is200) =>
        /\ data = Unbound /\ exc = NoExc
        /\ pc \in {"status", "print_error", "eof", "exited"}
        /\ pc \in {"status", "print_error"} => out = <<>>
        /\ Ended =>
                /\ Len(out) = 1
                /\ out[1].json = <<>>
                /\ Text(out[1]) = "Error: " \o ToString(response.status_code)
                                  \o " " \o WireText(response.body)

C3_Witness ==
    /\ Fetcher /\ pc = "exited"
    /\ response.status_code = 201
    /\ Decodes(response.body)
    /\ Len(out) = 1
    /\ Text(out[1]) = "Error: 201 {\"msg\":\"no\"}"

\* the script printed one JSON text, laid out with 2 spaces per level, that
\* reads back as the value of the body, and no "Error:" message
PrintedTheBody ==
    /\ exc = NoExc
    /\ Len(out) = 1
    /\ ~IsErrorLine(out[1])
    /\ ReadsWhole(out[1].json)
    /\ LaidOut(out[1].json, 2)
    /\ SameValue(response.body, ReadValue(out[1].json, 1).val)

\* C5 as stated: in the config fetcher, a 200 response with a JSON body makes
\* the script print that same JSON value, re-serialized with 2-space
\* indentation (equal to the received value up to key ordering), and no
\* "Error:" message.
C5_Original ==
    (Fetcher /\ pc = "exited" /\ Is200 /\ ValidJSON(response.body))
        => PrintedTheBody

\* C5 amended: the same for a JSON body in which every number lies in the
\* range of the normal doubles and no object repeats a name.  (A number beyond the
\* doubles is printed as Infinity or -Infinity, which is no JSON, one too
\* small as 0.0; of members with the same name only the last is printed.)
C5_FetcherPrintsTheBody ==
    (Fetcher /\ pc = "exited" /\ Is200 /\ ValidJSON(response.body)
       /\ ~HasOutOfRange(response.body) /\ ~RepeatsName(response.body))
        => PrintedTheBody

C5_Witness ==
    /\ Fetcher /\ pc = "exited" /\ exitcode = 0 /\ Is200
    /\ response.body = JArr(<<JObj(<< <<ID, JInt(1)>>, <<NAME, JInt(1)>> >>), Lit("false")>>)
    /\ Len(out) = 1
    /\ Len(out[1].json) = 7
    /\ out[1].json[3] = Line(4, TRUE, ID, JInt(1), TRUE)

\* C6: in the config fetcher, a GET that raises (connection refused, say) is
\* not caught: the exception propagates, the script ends abnormally, and it
\* prints neither a JSON payload nor an "Error:" message.
C6_FetcherTransportFailure ==
    (Fetcher /\ ~Answered /\ exc # NoExc) =>
        /\ exc \in TransportErrors
        /\ pc \in {"unwind", "exited"}
        /\ ~Handled
        /\ out = <<>>
        /\ pc = "exited" => exitcode = 1

C6_Witness ==
    /\ Fetcher /\ pc = "exited" /\ exitcode = 1
    /\ ~Answered
    /\ exc.cls = "ConnectionError"
    /\ out = <<>>

\* the exception of response.json() propagated: nothing printed, abnormal end
JsonErrorPropagated ==
    /\ exc = JSONDecodeError
    /\ out = <<>>
    /\ pc \in {"unwind", "exited"}
    /\ pc = "exited" => exitcode = 1

\* an "Error:" message is printed on the non-200 branch alone
ErrorOnlyOnNon200 ==
    \A i \in 1..Len(out) : IsErrorLine(out[i]) => ~Is200

\* C10 as stated: in the config fetcher, a 200 response whose body is not valid
\* JSON makes response.json() raise; the exception propagates uncaught and the
\* script ends abnormally having printed nothing; "Error: <status> <text>" is
\* printed on the non-200 branch alone.
C10_Original ==
    Fetcher =>
        /\ ErrorOnlyOnNon200
        /\ (Is200 /\ ~ValidJSON(response.body) /\ pc = "exited")
             => JsonErrorPropagated

\* C10 amended: the same for a body the decoder rejects.  A body that is JSON
\* but for NaN, Infinity or -Infinity tokens is not valid JSON, yet the decoder
\* accepts it, and the script prints it and exits with status 0.
C10_FetcherUnparseableBody ==
    Fetcher =>
        /\ ErrorOnlyOnNon200
        /\ (Is200 /\ ~Decodes(response.body) /\ pc \notin {"status", "json"})
             => JsonErrorPropagated
        /\ (Is200 /\ ~ValidJSON(response.body) /\ Decodes(response.body)
              /\ pc = "exited")
             => exitcode = 0 /\ Len(out) = 1 /\ out[1].json # <<>>

C10_Witness ==
    /\ Fetcher /\ pc = "exited" /\ exitcode = 1 /\ Is200
    /\ response.body = NotJson(<<"<", "h", "t", "m", "l", ">">>)
    /\ exc = JSONDecodeError
    /\ out = <<>>

(***************************************************************************)
(* Properties of both scripts                                              *)
(***************************************************************************)
\* C7: in every run of either script exactly one GET is issued, whatever its
\* outcome (200, another status, an exception): never a second one, and once
\* the call has returned or raised the script runs to its end.
C7_OneCallThenExit ==
    /\ [](Len(sent) <= 1)
    /\ [](pc # "get" => Len(sent) = 1 /\ sent[1].method = "GET")
    /\ [](pc = "exited" => ~ENABLED Next)
    /\ (pc \notin {"get", "wait"}) ~> (pc = "exited")

C7_Witness ==
    /\ pc = "exited" /\ Len(sent) = 1
    /\ sent[1].url = "http://localhost:5244/api/sites"
    /\ Lister /\ exc.cls = "ConnectionError"
    /\ Len(out) = 1

====
